---- MODULE Spec2Model ----
(***************************************************************************)
(* A model of the samp-query library: the packet codec (packet.rs), the    *)
(* opcodes (protocol.rs), the typed decoders and the retrying UDP          *)
(* transport (client.rs).  Bytes are integers 0..255, datagrams and        *)
(* strings are sequences of bytes, a Rust Result is a record with an ok    *)
(* flag, and a panic of the bytes crate's get_* readers is the outcome     *)
(* [ok |-> FALSE, err |-> [kind |-> "Panic"]].                             *)
(***************************************************************************)
EXTENDS Integers, Sequences, FiniteSets, TLC

(***************************************************************************)
(* protocol.rs: constants and opcodes                                      *)
(***************************************************************************)
SAMP_SIGNATURE == <<83, 65, 77, 80>>

HEADER_SIZE == 11

MAX_PACKET_SIZE == 2048

MAX_RETRIES == 3

QueryType == {"Information", "Rules", "ClientList", "DetailedPlayerInfo", "Ping", "Rcon"}

opcode(k) ==
  CASE k = "Information" -> 105
    [] k = "Rules" -> 114
    [] k = "ClientList" -> 99
    [] k = "DetailedPlayerInfo" -> 100
    [] k = "Ping" -> 112
    [] k = "Rcon" -> 120

\* from_opcode without the arm for 'x'.
from_opcode_no_rcon(b) ==
  CASE b = 105 -> "Information"
    [] b = 114 -> "Rules"
    [] b = 99 -> "ClientList"
    [] b = 100 -> "DetailedPlayerInfo"
    [] b = 112 -> "Ping"
    [] OTHER -> "None"

from_opcode(b) ==
  CASE b = 105 -> "Information"
    [] b = 114 -> "Rules"
    [] b = 99 -> "ClientList"
    [] b = 100 -> "DetailedPlayerInfo"
    [] b = 112 -> "Ping"
    [] b = 120 -> "Rcon"
    [] OTHER -> "None"

(***************************************************************************)
(* Results and errors (error.rs)                                           *)
(***************************************************************************)
Ok(v) == [ok |-> TRUE, val |-> v]

Err(kind, msg) == [ok |-> FALSE, err |-> [kind |-> kind, msg |-> msg]]

Panic == [ok |-> FALSE, err |-> [kind |-> "Panic", msg |-> "advance out of bounds"]]

ErrorKinds == {"AddrParse", "Bind", "Connect", "Timeout", "Send", "Receive",
               "InvalidResponse", "Utf8", "ServerError", "RconAuthFailed",
               "InvalidQueryType", "Io", "Other"}

(***************************************************************************)
(* Byte helpers                                                            *)
(***************************************************************************)
SubBytes(s, from, to) == [i \in 1..(to - from + 1) |-> s[from + i - 1]]

Drop(s, n) == SubBytes(s, n + 1, Len(s))

Take(s, n) == SubBytes(s, 1, n)

Fill(n, b) == [i \in 1..n |-> b]

RECURSIVE FromLE(_)
FromLE(bs) == IF bs = <<>> THEN 0 ELSE bs[1] + 256 * FromLE(Tail(bs))

RECURSIVE ToLE(_, _)
ToLE(v, n) == IF n = 0 THEN <<>> ELSE <<v % 256>> \o ToLE(v \div 256, n - 1)

(***************************************************************************)
(* packet.rs: building requests                                            *)
(***************************************************************************)
\* create_query writing the port high byte first.
create_query_port_be(server_addr, query_type) ==
  IF server_addr.v4
    THEN Ok(SAMP_SIGNATURE \o server_addr.octets
            \o <<(server_addr.port \div 256) % 256, server_addr.port % 256>>
            \o <<opcode(query_type)>>)
    ELSE Err("InvalidResponse", "IPv6 addresses are not supported")

create_query(server_addr, query_type) ==
  IF server_addr.v4
    THEN Ok(SAMP_SIGNATURE \o server_addr.octets
            \o <<server_addr.port % 256, (server_addr.port \div 256) % 256>>
            \o <<opcode(query_type)>>)
    ELSE Err("InvalidResponse", "IPv6 addresses are not supported")

create_rcon_query(server_addr, password, command) ==
  IF Len(password) > 255
    THEN Err("InvalidResponse", "RCON password too long (max 255 characters)")
  ELSE IF Len(command) > 1024
    THEN Err("InvalidResponse", "RCON command too long (max 1024 characters)")
  ELSE LET packet == create_query(server_addr, "Rcon")
       IN IF ~packet.ok THEN packet
          ELSE Ok(packet.val \o ToLE(Len(password) % 65536, 2) \o password
                  \o ToLE(Len(command) % 65536, 2) \o command)

create_ping_query(server_addr, random_bytes) ==
  LET packet == create_query(server_addr, "Ping")
  IN IF ~packet.ok THEN packet
     ELSE Ok([packet |-> packet.val \o random_bytes, random_bytes |-> random_bytes])

(***************************************************************************)
(* packet.rs: validating responses                                         *)
(***************************************************************************)
\* validate_response with an off-by-one length test.
validate_response_off_by_one(data) ==
  IF Len(data) <= HEADER_SIZE
    THEN Err("InvalidResponse", "Response packet is too short")
  ELSE IF Take(data, 4) # SAMP_SIGNATURE
    THEN Err("InvalidResponse", "Invalid SAMP signature in response")
  ELSE Ok(<<>>)

validate_response(data) ==
  IF Len(data) < HEADER_SIZE
    THEN Err("InvalidResponse", "Response packet is too short")
  ELSE IF Take(data, 4) # SAMP_SIGNATURE
    THEN Err("InvalidResponse", "Invalid SAMP signature in response")
  ELSE Ok(<<>>)

\* parse_response that rejects an opcode other than the requested one.
parse_response_checks_opcode(data, query_type) ==
  IF Len(data) < HEADER_SIZE
    THEN Err("InvalidResponse", "Response packet is too short")
  ELSE IF Take(data, 4) # SAMP_SIGNATURE
    THEN Err("InvalidResponse", "Invalid SAMP signature in response")
  ELSE IF data[HEADER_SIZE] # opcode(query_type)
    THEN Err("InvalidResponse", "Unexpected opcode in response")
  ELSE Ok(Drop(data, HEADER_SIZE))

parse_response(data, query_type) ==
  LET v == validate_response(data)
  IN IF ~v.ok THEN v ELSE Ok(Drop(data, HEADER_SIZE))

(***************************************************************************)
(* Cursor readers.  A cursor is the payload and the count of bytes already *)
(* consumed.  bytes::Buf::get_u8 / get_u16_le / get_i32_le / get_u32_le    *)
(* panic when fewer bytes remain than they read; Read::read_exact returns  *)
(* an io::Error (UnexpectedEof), which `?` turns into Error::Io.           *)
(***************************************************************************)
Read(v, pos) == [ok |-> TRUE, val |-> v, pos |-> pos]

get_uint_le(data, pos, n) ==
  IF Len(data) - pos < n THEN Panic
  ELSE Read(FromLE(SubBytes(data, pos + 1, pos + n)), pos + n)

get_u8(data, pos) == get_uint_le(data, pos, 1)

get_u16_le(data, pos) == get_uint_le(data, pos, 2)

\* A u32 may exceed 2^31 - 1, the largest integer TLC evaluates: it is kept
\* as its two 16-bit halves, [hi, lo], value hi * 65536 + lo.
get_u32_le(data, pos) ==
  IF Len(data) - pos < 4 THEN Panic
  ELSE Read([hi |-> FromLE(SubBytes(data, pos + 3, pos + 4)),
             lo |-> FromLE(SubBytes(data, pos + 1, pos + 2))], pos + 4)

\* An i32 is the two's complement reading of the four bytes.
get_i32_le(data, pos) ==
  IF Len(data) - pos < 4 THEN Panic
  ELSE LET b4 == data[pos + 4]
       IN Read(FromLE(SubBytes(data, pos + 1, pos + 3))
               + 16777216 * (IF b4 >= 128 THEN b4 - 256 ELSE b4), pos + 4)

IsCont(b) == b >= 128 /\ b <= 191

\* String::from_utf8: TRUE iff the bytes are well-formed UTF-8.  A run of
\* ASCII bytes is skipped in one step, up to the first byte that starts a
\* multi-byte sequence.
RECURSIVE valid_utf8(_)
valid_utf8(bs) ==
  IF \A i \in 1..Len(bs) : bs[i] < 128 THEN TRUE
  ELSE LET k == CHOOSE i \in 1..Len(bs) :
                  bs[i] >= 128 /\ \A j \in 1..(i - 1) : bs[j] < 128
           rest == Drop(bs, k - 1)
           b == rest[1]
           n == Len(rest)
       IN CASE b >= 194 /\ b <= 223 ->
                 n >= 2 /\ IsCont(rest[2]) /\ valid_utf8(Drop(rest, 2))
            [] b >= 224 /\ b <= 239 ->
                 /\ n >= 3
                 /\ IsCont(rest[2]) /\ IsCont(rest[3])
                 /\ (b = 224 => rest[2] >= 160)
                 /\ (b = 237 => rest[2] <= 159)
                 /\ valid_utf8(Drop(rest, 3))
            [] b >= 240 /\ b <= 244 ->
                 /\ n >= 4
                 /\ IsCont(rest[2]) /\ IsCont(rest[3]) /\ IsCont(rest[4])
                 /\ (b = 240 => rest[2] >= 144)
                 /\ (b = 244 => rest[2] <= 143)
                 /\ valid_utf8(Drop(rest, 4))
            [] OTHER -> FALSE

from_utf8(bytes, pos) ==
  IF valid_utf8(bytes) THEN Read(bytes, pos)
  ELSE Err("Utf8", "invalid utf-8 sequence")

read_length_prefixed_string(data, pos) ==
  LET length == get_u8(data, pos)
  IN IF ~length.ok THEN length
     ELSE IF length.val > MAX_PACKET_SIZE
       THEN Err("InvalidResponse", "String length exceeds maximum packet size")
     ELSE IF Len(data) - length.pos < length.val
       THEN Err("Io", "failed to fill whole buffer")
     ELSE from_utf8(SubBytes(data, length.pos + 1, length.pos + length.val),
                    length.pos + length.val)

\* read_length_prefixed_string_16 rejecting a prefix equal to the maximum.
read_length_prefixed_string_16_exclusive(data, pos) ==
  LET length == get_u16_le(data, pos)
  IN IF ~length.ok THEN length
     ELSE IF length.val >= MAX_PACKET_SIZE
       THEN Err("InvalidResponse", "String length exceeds maximum packet size")
     ELSE IF Len(data) - length.pos < length.val
       THEN Err("Io", "failed to fill whole buffer")
     ELSE from_utf8(SubBytes(data, length.pos + 1, length.pos + length.val),
                    length.pos + length.val)

read_length_prefixed_string_16(data, pos) ==
  LET length == get_u16_le(data, pos)
  IN IF ~length.ok THEN length
     ELSE IF length.val > MAX_PACKET_SIZE
       THEN Err("InvalidResponse", "String length exceeds maximum packet size")
     ELSE IF Len(data) - length.pos < length.val
       THEN Err("Io", "failed to fill whole buffer")
     ELSE from_utf8(SubBytes(data, length.pos + 1, length.pos + length.val),
                    length.pos + length.val)

\* read_length_prefixed_string_32 reading a 16-bit prefix.
read_length_prefixed_string_32_narrow(data, pos) ==
  LET length == get_u16_le(data, pos)
  IN IF ~length.ok THEN length
     ELSE IF length.val > MAX_PACKET_SIZE
       THEN Err("InvalidResponse", "String length exceeds maximum packet size")
     ELSE IF Len(data) - length.pos < length.val
       THEN Err("Io", "failed to fill whole buffer")
     ELSE from_utf8(SubBytes(data, length.pos + 1, length.pos + length.val),
                    length.pos + length.val)

read_length_prefixed_string_32(data, pos) ==
  LET length == get_u32_le(data, pos)
  IN IF ~length.ok THEN length
     ELSE IF length.val.hi > 0 \/ length.val.lo > MAX_PACKET_SIZE
       THEN Err("InvalidResponse", "String length exceeds maximum packet size")
     ELSE IF Len(data) - length.pos < length.val.lo
       THEN Err("Io", "failed to fill whole buffer")
     ELSE from_utf8(SubBytes(data, length.pos + 1, length.pos + length.val.lo),
                    length.pos + length.val.lo)

(***************************************************************************)
(* client.rs: the typed decoders, i.e. what each query_* does with the     *)
(* payload that parse_response returned.                                   *)
(***************************************************************************)
query_info_decode(data) ==
  LET password == get_u8(data, 0) IN
  IF ~password.ok THEN password ELSE
  LET players == get_u16_le(data, password.pos) IN
  IF ~players.ok THEN players ELSE
  LET max_players == get_u16_le(data, players.pos) IN
  IF ~max_players.ok THEN max_players ELSE
  LET hostname == read_length_prefixed_string_32(data, max_players.pos) IN
  IF ~hostname.ok THEN hostname ELSE
  LET gamemode == read_length_prefixed_string_32(data, hostname.pos) IN
  IF ~gamemode.ok THEN gamemode ELSE
  LET language == read_length_prefixed_string_32(data, gamemode.pos) IN
  IF ~language.ok THEN language ELSE
  Ok([password |-> password.val # 0,
      players |-> players.val,
      max_players |-> max_players.val,
      hostname |-> hostname.val,
      gamemode |-> gamemode.val,
      language |-> language.val])

\* An insert that keeps the entry a name already has.
insert_keeps_first(rules, name, value) ==
  IF \E e \in rules : e.name = name THEN rules
  ELSE rules \cup {[name |-> name, value |-> value]}

\* HashMap::insert.  The map is the set of its (name, value) entries, at most
\* one per name: a later entry with the same name replaces the earlier one.
insert(rules, name, value) ==
  {e \in rules : e.name # name} \cup {[name |-> name, value |-> value]}

RECURSIVE rules_loop(_, _, _, _)
rules_loop(data, pos, left, rules) ==
  IF left = 0 THEN Ok([rules |-> rules]) ELSE
  LET name == read_length_prefixed_string(data, pos) IN
  IF ~name.ok THEN name ELSE
  LET value == read_length_prefixed_string(data, name.pos) IN
  IF ~value.ok THEN value ELSE
  rules_loop(data, value.pos, left - 1, insert(rules, name.val, value.val))

\* query_rules whose loop body runs before the count is tested.
query_rules_decode_body_first(data) ==
  LET rule_count == get_u16_le(data, 0)
  IN IF ~rule_count.ok THEN rule_count
     ELSE rules_loop(data, rule_count.pos,
                     IF rule_count.val = 0 THEN 1 ELSE rule_count.val, {})

query_rules_decode(data) ==
  LET rule_count == get_u16_le(data, 0)
  IN IF ~rule_count.ok THEN rule_count
     ELSE rules_loop(data, rule_count.pos, rule_count.val, {})

RECURSIVE client_list_loop(_, _, _, _)
client_list_loop(data, pos, left, players) ==
  IF left = 0 THEN Ok([players |-> players]) ELSE
  LET name == read_length_prefixed_string(data, pos) IN
  IF ~name.ok THEN name ELSE
  LET score == get_i32_le(data, name.pos) IN
  IF ~score.ok THEN score ELSE
  client_list_loop(data, score.pos, left - 1,
                   Append(players, [name |-> name.val, score |-> score.val]))

query_client_list_decode(data) ==
  LET player_count == get_u16_le(data, 0)
  IN IF ~player_count.ok THEN player_count
     ELSE client_list_loop(data, player_count.pos, player_count.val, <<>>)

RECURSIVE detailed_loop(_, _, _, _)
detailed_loop(data, pos, left, players) ==
  IF left = 0 THEN Ok([players |-> players]) ELSE
  LET id == get_u8(data, pos) IN
  IF ~id.ok THEN id ELSE
  LET name == read_length_prefixed_string(data, id.pos) IN
  IF ~name.ok THEN name ELSE
  LET score == get_i32_le(data, name.pos) IN
  IF ~score.ok THEN score ELSE
  LET ping == get_u32_le(data, score.pos) IN
  IF ~ping.ok THEN ping ELSE
  detailed_loop(data, ping.pos, left - 1,
                Append(players, [id |-> id.val, name |-> name.val,
                                 score |-> score.val, ping |-> ping.val]))

query_detailed_player_info_decode(data) ==
  LET player_count == get_u16_le(data, 0)
  IN IF ~player_count.ok THEN player_count
     ELSE detailed_loop(data, player_count.pos, player_count.val, <<>>)

\* query_ping without the comparison with the nonce.
query_ping_decode_length_only(data, random_bytes) ==
  IF Len(data) < 4
    THEN Err("InvalidResponse", "Invalid ping response")
    ELSE Ok([ping_ms |-> "elapsed"])

\* query_ping after parse_response; elapsed time is not modelled.
query_ping_decode(data, random_bytes) ==
  IF Len(data) < 4 \/ Take(data, 4) # random_bytes
    THEN Err("InvalidResponse", "Invalid ping response")
    ELSE Ok([ping_ms |-> "elapsed"])

\* rcon_command taking a reply of blanks for an empty one.
rcon_command_decode_blank_is_empty(data) ==
  IF \A i \in 1..Len(data) : data[i] = 32 THEN Err("RconAuthFailed", "")
  ELSE IF ~valid_utf8(data) THEN Err("Utf8", "invalid utf-8 sequence")
  ELSE Ok([message |-> data])

\* rcon_command after parse_response.
rcon_command_decode(data) ==
  IF data = <<>> THEN Err("RconAuthFailed", "")
  ELSE IF ~valid_utf8(data) THEN Err("Utf8", "invalid utf-8 sequence")
  ELSE Ok([message |-> data])

\* What a typed query returns once send_query has handed it `response`:
\* Packet::from_bytes, parse_response, then the decoder of the kind.
\* The cursor position of a decoder's value is not part of the result.
Strip(r) == IF r.ok THEN Ok(r.val) ELSE [ok |-> FALSE, err |-> r.err]

typed_result(query_type, random_bytes, response) ==
  LET data == parse_response(response, query_type)
  IN IF ~data.ok THEN data
     ELSE CASE query_type = "Information" -> Strip(query_info_decode(data.val))
            [] query_type = "Rules" -> Strip(query_rules_decode(data.val))
            [] query_type = "ClientList" -> Strip(query_client_list_decode(data.val))
            [] query_type = "DetailedPlayerInfo" ->
                 Strip(query_detailed_player_info_decode(data.val))
            [] query_type = "Ping" -> query_ping_decode(data.val, random_bytes)
            [] query_type = "Rcon" -> rcon_command_decode(data.val)

(***************************************************************************)
(* api/src/error.rs: the HTTP gateway's error type and the status code its *)
(* IntoResponse gives each error.  A library error reaches the gateway as  *)
(* ApiError::Query; the gateway's own address parse as ApiError::AddrParse.*)
(***************************************************************************)
ApiError ==
  {[variant |-> "AddrParse"], [variant |-> "Internal"]}
  \cup {[variant |-> "Query", kind |-> k] : k \in ErrorKinds}

into_response(e) ==
  CASE e.variant = "AddrParse" -> 400
    [] e.variant = "Query" /\ e.kind = "Timeout" -> 504
    [] e.variant = "Query" /\ e.kind = "Connect" -> 502
    [] e.variant = "Query" /\ e.kind = "RconAuthFailed" -> 401
    [] e.variant = "Query" -> 500
    [] e.variant = "Internal" -> 500

(***************************************************************************)
(* State.                                                                  *)
(*   handle, server_addr, config: the Client (client.rs:30-35); handle is  *)
(*     "none" before connect, "open" after, or the error kind connect      *)
(*     returned.                                                           *)
(*   rxq: the datagrams that reached the client's UDP socket and were not  *)
(*     yet returned by recv, oldest first; each carries the caller whose   *)
(*     request the peer answered with it (0: none).                        *)
(*   pc, query, retries, sends, timeouts, result, received: per caller,    *)
(*     the position in send_query, the request of the typed call, the      *)
(*     retry counter, the number of send attempts and of timed-out         *)
(*     receives of the call, what the call returned, and the datagram      *)
(*     that send_query returned to it (a sequence of length 0 or 1).       *)
(*   prev, stale: history of the typed call begun most recently on the     *)
(*     handle: whether its caller's previous call ended in Timeout, in     *)
(*     another way ("Other") or did not exist ("None"), and the oldest     *)
(*     datagram that was already queued on the socket when the call began  *)
(*     (a sequence of length 0 or 1).                                      *)
(*   sent: per caller, the datagrams handed to socket.send by the call,    *)
(*     one per attempt, in order.                                          *)
(*   cop, cargs, cret, cdone: a call of one pure codec function, its       *)
(*     arguments, and its return value once applied.                       *)
(***************************************************************************)
VARIABLES handle, server_addr, config, rxq,
          pc, query, retries, sends, timeouts, result, received,
          prev, stale, sent,
          cop, cargs, cret, cdone

vars == <<handle, server_addr, config, rxq,
          pc, query, retries, sends, timeouts, result, received,
          prev, stale, sent,
          cop, cargs, cret, cdone>>

clientVars == <<handle, server_addr, config>>

taskVars == <<pc, query, retries, sends, timeouts, result, received, prev, stale,
               sent>>

codecVars == <<cop, cargs, cret, cdone>>

(***************************************************************************)
(* Bounds and input sets                                                   *)
(***************************************************************************)
MaxRetries == 2

MaxQueue == 2

Tasks == {1, 2}

V4(a, b, c, d, port) == [v4 |-> TRUE, octets |-> <<a, b, c, d>>, port |-> port]

V6(port) == [v4 |-> FALSE, octets |-> <<>>, port |-> port]

Peers == {V4(127, 0, 0, 1, 7777), V4(192, 168, 1, 255, 65535), V4(0, 0, 0, 0, 0),
          V4(10, 0, 0, 2, 256), V6(7777)}

Nonces == {<<170, 187, 204, 221>>, <<170, 187, 204, 222>>}

NoQuery == [kind |-> "None", packet |-> <<>>, random_bytes |-> <<>>]

Pending == Err("Pending", "")

\* What the peer may put on the wire towards a client connected to `peer`: a
\* datagram shorter than a header, one with a wrong magic, and the echoed
\* header followed by a payload.
EchoHeader(peer, k) == create_query(peer, k).val

InfoPayload == <<0, 5, 0, 50, 0, 2, 0, 0, 0, 72, 105, 1, 0, 0, 0, 70, 0, 0, 0, 0>>

RulesPayload == <<1, 0, 1, 119, 1, 49>>

Responses(peer) ==
  IF ~peer.v4 THEN {SAMP_SIGNATURE}
  ELSE {SAMP_SIGNATURE,
        <<88>> \o Tail(EchoHeader(peer, "Information")) \o InfoPayload,
        EchoHeader(peer, "Information"),
        EchoHeader(peer, "Information") \o InfoPayload,
        EchoHeader(peer, "Rules") \o RulesPayload,
        EchoHeader(peer, "Rcon") \o <<32>>,
        EchoHeader(peer, "Rcon") \o <<255>>}
       \cup {EchoHeader(peer, "Ping") \o n : n \in Nonces}

\* The nonces query_ping may draw in a call of Client::query: none is drawn
\* for another kind.
NoncesOf(k) == IF k = "Ping" THEN Nonces ELSE {<<>>}

TransportPeers == {V4(127, 0, 0, 1, 7777), V6(7777)}

Passwords == {<<112, 119>>, Fill(256, 97)}

Commands == {<<99>>, Fill(1025, 97)}

(***************************************************************************)
(* client.rs: connect_with_config.  Whether bind and connect succeed is    *)
(* the operating system's answer.                                          *)
(***************************************************************************)
connect_with_config(os) ==
  /\ handle = "none"
  /\ handle' = os
  /\ UNCHANGED <<server_addr, config, rxq, taskVars, codecVars>>

(***************************************************************************)
(* client.rs: send_query, one action per step between suspension points.   *)
(***************************************************************************)
\* The loop condition with <= : one attempt more than max_retries.
loop_continues_inclusive(r, max_retries) == r <= max_retries

\* The loop condition of send_query: while retries < self.config.max_retries.

loop_continues(r, max_retries) == r < max_retries

\* socket.recv into a buffer of MAX_PACKET_SIZE bytes, truncated to the size
\* received: a longer datagram loses its tail.
recv(datagram) ==
  IF Len(datagram) > MAX_PACKET_SIZE THEN Take(datagram, MAX_PACKET_SIZE) ELSE datagram

\* A client whose retry counter outlives the call: the next call goes on
\* counting where the previous one stopped.
Begin_keeps_retries(t, k, built, rb) ==
  /\ handle = "open"
  /\ pc[t] = "idle"
  /\ query' = [query EXCEPT ![t] = [kind |-> k,
                                    packet |-> IF built.ok THEN built.val ELSE <<>>,
                                    random_bytes |-> rb]]
  /\ retries' = retries
  /\ sends' = [sends EXCEPT ![t] = 0]
  /\ timeouts' = [timeouts EXCEPT ![t] = 0]
  /\ received' = [received EXCEPT ![t] = <<>>]
  /\ prev' = IF query[t].kind = "None" THEN "None"
              ELSE IF result[t] = Err("Timeout", "") THEN "Timeout"
              ELSE "Other"
  /\ stale' = IF rxq = <<>> THEN <<>> ELSE <<Head(rxq)>>
  /\ sent' = [sent EXCEPT ![t] = <<>>]
  /\ IF ~built.ok
       THEN /\ result' = [result EXCEPT ![t] = built]
            /\ pc' = pc
       ELSE IF loop_continues(retries[t], config.max_retries)
         THEN /\ result' = [result EXCEPT ![t] = Pending]
              /\ pc' = [pc EXCEPT ![t] = "send"]
         ELSE /\ result' = [result EXCEPT ![t] = Err("Timeout", "")]
              /\ pc' = pc
  /\ UNCHANGED <<clientVars, rxq, codecVars>>

\* A client that empties the socket's receive queue before each query.
Begin_drains_socket(t, k, built, rb) ==
  /\ handle = "open"
  /\ pc[t] = "idle"
  /\ query' = [query EXCEPT ![t] = [kind |-> k,
                                    packet |-> IF built.ok THEN built.val ELSE <<>>,
                                    random_bytes |-> rb]]
  /\ retries' = [retries EXCEPT ![t] = 0]
  /\ sends' = [sends EXCEPT ![t] = 0]
  /\ timeouts' = [timeouts EXCEPT ![t] = 0]
  /\ received' = [received EXCEPT ![t] = <<>>]
  /\ prev' = IF query[t].kind = "None" THEN "None"
              ELSE IF result[t] = Err("Timeout", "") THEN "Timeout"
              ELSE "Other"
  /\ stale' = IF rxq = <<>> THEN <<>> ELSE <<Head(rxq)>>
  /\ sent' = [sent EXCEPT ![t] = <<>>]
  /\ rxq' = <<>>
  /\ IF ~built.ok
       THEN /\ result' = [result EXCEPT ![t] = built]
            /\ pc' = pc
       ELSE IF loop_continues(0, config.max_retries)
         THEN /\ result' = [result EXCEPT ![t] = Pending]
              /\ pc' = [pc EXCEPT ![t] = "send"]
         ELSE /\ result' = [result EXCEPT ![t] = Err("Timeout", "")]
              /\ pc' = pc
  /\ UNCHANGED <<clientVars, codecVars>>

\* A typed call up to the first suspension point: the request was built
\* (`built`), and on success send_query is entered with retries = 0.
Begin(t, k, built, rb) ==
  /\ handle = "open"
  /\ pc[t] = "idle"
  /\ query' = [query EXCEPT ![t] = [kind |-> k,
                                    packet |-> IF built.ok THEN built.val ELSE <<>>,
                                    random_bytes |-> rb]]
  /\ retries' = [retries EXCEPT ![t] = 0]
  /\ sends' = [sends EXCEPT ![t] = 0]
  /\ timeouts' = [timeouts EXCEPT ![t] = 0]
  /\ received' = [received EXCEPT ![t] = <<>>]
  /\ prev' = IF query[t].kind = "None" THEN "None"
              ELSE IF result[t] = Err("Timeout", "") THEN "Timeout"
              ELSE "Other"
  /\ stale' = IF rxq = <<>> THEN <<>> ELSE <<Head(rxq)>>
  /\ sent' = [sent EXCEPT ![t] = <<>>]
  /\ IF ~built.ok
       THEN /\ result' = [result EXCEPT ![t] = built]
            /\ pc' = pc
       ELSE IF loop_continues(0, config.max_retries)
         THEN /\ result' = [result EXCEPT ![t] = Pending]
              /\ pc' = [pc EXCEPT ![t] = "send"]
         ELSE /\ result' = [result EXCEPT ![t] = Err("Timeout", "")]
              /\ pc' = pc
  /\ UNCHANGED <<clientVars, rxq, codecVars>>

query_info(t) == Begin(t, "Information", create_query(server_addr, "Information"), <<>>)

query_rules(t) == Begin(t, "Rules", create_query(server_addr, "Rules"), <<>>)

query_client_list(t) == Begin(t, "ClientList", create_query(server_addr, "ClientList"), <<>>)

query_detailed_player_info(t) ==
  Begin(t, "DetailedPlayerInfo", create_query(server_addr, "DetailedPlayerInfo"), <<>>)

query_ping(t, random_bytes) ==
  LET built == create_ping_query(server_addr, random_bytes)
  IN Begin(t, "Ping", IF built.ok THEN Ok(built.val.packet) ELSE built, random_bytes)

rcon_command(t, password, command) ==
  Begin(t, "Rcon", create_rcon_query(server_addr, password, command), <<>>)

\* The uniform entry point sending an RCON request with no password and no
\* command.
client_query_sends_empty_rcon(t, query_type, random_bytes) ==
  CASE query_type = "Information" -> query_info(t)
    [] query_type = "Rules" -> query_rules(t)
    [] query_type = "ClientList" -> query_client_list(t)
    [] query_type = "DetailedPlayerInfo" -> query_detailed_player_info(t)
    [] query_type = "Ping" -> query_ping(t, random_bytes)
    [] query_type = "Rcon" -> rcon_command(t, <<>>, <<>>)

\* Client::query (`query` names the request of a call here).  The five kinds other than Rcon are the typed calls, whose
\* value comes back boxed; Rcon returns at once.  random_bytes is the nonce
\* that query_ping draws when the kind is Ping.
client_query(t, query_type, random_bytes) ==
  CASE query_type = "Information" -> query_info(t)
    [] query_type = "Rules" -> query_rules(t)
    [] query_type = "ClientList" -> query_client_list(t)
    [] query_type = "DetailedPlayerInfo" -> query_detailed_player_info(t)
    [] query_type = "Ping" -> query_ping(t, random_bytes)
    [] query_type = "Rcon" ->
         /\ handle = "open"
         /\ pc[t] = "idle"
         /\ query' = [query EXCEPT ![t] = [kind |-> "Rcon", packet |-> <<>>,
                                           random_bytes |-> <<>>]]
         /\ retries' = [retries EXCEPT ![t] = 0]
         /\ sends' = [sends EXCEPT ![t] = 0]
         /\ timeouts' = [timeouts EXCEPT ![t] = 0]
         /\ received' = [received EXCEPT ![t] = <<>>]
         /\ prev' = IF query[t].kind = "None" THEN "None"
                     ELSE IF result[t] = Err("Timeout", "") THEN "Timeout"
                     ELSE "Other"
         /\ stale' = IF rxq = <<>> THEN <<>> ELSE <<Head(rxq)>>
         /\ sent' = [sent EXCEPT ![t] = <<>>]
         /\ result' = [result EXCEPT ![t] =
                         Err("InvalidQueryType",
                             "RCON queries require a password and command")]
         /\ UNCHANGED <<pc, clientVars, rxq, codecVars>>

\* send_query reporting a failed send as a failure to connect.
SendAttempt_reports_connect(t, os_ok) ==
  /\ pc[t] = "send"
  /\ sends' = [sends EXCEPT ![t] = @ + 1]
  /\ IF os_ok
       THEN /\ pc' = [pc EXCEPT ![t] = "recv"]
            /\ result' = result
       ELSE /\ pc' = [pc EXCEPT ![t] = "idle"]
            /\ result' = [result EXCEPT ![t] = Err("Connect", "")]
  /\ retries' = retries
  /\ sent' = [sent EXCEPT ![t] = Append(@, query[t].packet)]
  /\ UNCHANGED <<clientVars, rxq, query, timeouts, received, prev, stale, codecVars>>

\* send_query counting a failed send as a lost attempt and going on.
SendAttempt_retries_on_failure(t, os_ok) ==
  /\ pc[t] = "send"
  /\ sends' = [sends EXCEPT ![t] = @ + 1]
  /\ IF os_ok
       THEN /\ pc' = [pc EXCEPT ![t] = "recv"]
            /\ UNCHANGED <<result, retries>>
       ELSE /\ retries' = [retries EXCEPT ![t] = @ + 1]
            /\ IF loop_continues(retries[t] + 1, config.max_retries)
                 THEN UNCHANGED <<pc, result>>
                 ELSE /\ pc' = [pc EXCEPT ![t] = "idle"]
                      /\ result' = [result EXCEPT ![t] = Err("Timeout", "")]
  /\ sent' = [sent EXCEPT ![t] = Append(@, query[t].packet)]
  /\ UNCHANGED <<clientVars, rxq, query, timeouts, received, prev, stale, codecVars>>

\* query_ping drawing a new nonce for every attempt after the first.
SendAttempt_fresh_nonce(t, os_ok) ==
  /\ pc[t] = "send"
  /\ sends' = [sends EXCEPT ![t] = @ + 1]
  /\ IF os_ok
       THEN /\ pc' = [pc EXCEPT ![t] = "recv"]
            /\ result' = result
       ELSE /\ pc' = [pc EXCEPT ![t] = "idle"]
            /\ result' = [result EXCEPT ![t] = Err("Send", "")]
  /\ retries' = retries
  /\ LET again == query[t].kind = "Ping" /\ sends[t] >= 1
         fresh == CHOOSE n \in Nonces : n # query[t].random_bytes
         packet == IF again
                     THEN create_ping_query(server_addr, fresh).val.packet
                     ELSE query[t].packet
     IN /\ query' = [query EXCEPT ![t].packet = packet,
                                  ![t].random_bytes = IF again THEN fresh ELSE @]
        /\ sent' = [sent EXCEPT ![t] = Append(@, packet)]
  /\ UNCHANGED <<clientVars, rxq, timeouts, received, prev, stale, codecVars>>

\* socket.send(packet).await.map_err(Error::Send)?
SendAttempt(t, os_ok) ==
  /\ pc[t] = "send"
  /\ sends' = [sends EXCEPT ![t] = @ + 1]
  /\ IF os_ok
       THEN /\ pc' = [pc EXCEPT ![t] = "recv"]
            /\ result' = result
       ELSE /\ pc' = [pc EXCEPT ![t] = "idle"]
            /\ result' = [result EXCEPT ![t] = Err("Send", "")]
  /\ retries' = retries
  /\ sent' = [sent EXCEPT ![t] = Append(@, query[t].packet)]
  /\ UNCHANGED <<clientVars, rxq, query, timeouts, received, prev, stale, codecVars>>

\* A typed call that asks again when the reply does not decode.
RecvDatagram_retries_bad_reply(t) ==
  /\ pc[t] = "recv"
  /\ rxq # <<>>
  /\ LET m == Head(rxq)
         response == recv(m.data)
         r == typed_result(query[t].kind, query[t].random_bytes, response)
     IN /\ received' = [received EXCEPT ![t] = <<[for |-> m.for, data |-> response]>>]
        /\ IF ~r.ok /\ loop_continues(retries[t] + 1, config.max_retries)
             THEN /\ retries' = [retries EXCEPT ![t] = @ + 1]
                  /\ pc' = [pc EXCEPT ![t] = "send"]
                  /\ result' = result
             ELSE /\ retries' = retries
                  /\ result' = [result EXCEPT ![t] = r]
                  /\ pc' = [pc EXCEPT ![t] = IF r = Panic THEN "panicked" ELSE "idle"]
  /\ rxq' = Tail(rxq)
  /\ UNCHANGED <<clientVars, query, sends, timeouts, prev, stale, sent, codecVars>>

\* Ok(Ok(size)): send_query returns the datagram and the typed call decodes it.
RecvDatagram(t) ==
  /\ pc[t] = "recv"
  /\ rxq # <<>>
  /\ LET m == Head(rxq)
         response == recv(m.data)
         r == typed_result(query[t].kind, query[t].random_bytes, response)
     IN /\ result' = [result EXCEPT ![t] = r]
        /\ received' = [received EXCEPT ![t] = <<[for |-> m.for, data |-> response]>>]
        /\ pc' = [pc EXCEPT ![t] = IF r = Panic THEN "panicked" ELSE "idle"]
  /\ rxq' = Tail(rxq)
  /\ UNCHANGED <<clientVars, query, retries, sends, timeouts, prev, stale, sent, codecVars>>

\* Ok(Err(e)) => return Err(Error::Receive(e))
RecvError(t) ==
  /\ pc[t] = "recv"
  /\ result' = [result EXCEPT ![t] = Err("Receive", "")]
  /\ pc' = [pc EXCEPT ![t] = "idle"]
  /\ UNCHANGED <<clientVars, rxq, query, retries, sends, timeouts, received,
                 prev, stale, sent, codecVars>>

\* send_query adding 2 to the counter at each timed-out receive.
RecvTimeout_counts_twice(t) ==
  /\ pc[t] = "recv"
  /\ rxq = <<>>
  /\ retries' = [retries EXCEPT ![t] = @ + 2]
  /\ timeouts' = [timeouts EXCEPT ![t] = @ + 1]
  /\ IF loop_continues(retries[t] + 2, config.max_retries)
       THEN /\ pc' = [pc EXCEPT ![t] = "send"]
            /\ result' = result
       ELSE /\ pc' = [pc EXCEPT ![t] = "idle"]
            /\ result' = [result EXCEPT ![t] = Err("Timeout", "")]
  /\ UNCHANGED <<clientVars, rxq, query, sends, received, prev, stale, sent, codecVars>>

\* send_query giving up at the first timed-out receive.
RecvTimeout_gives_up(t) ==
  /\ pc[t] = "recv"
  /\ rxq = <<>>
  /\ retries' = [retries EXCEPT ![t] = @ + 1]
  /\ timeouts' = [timeouts EXCEPT ![t] = @ + 1]
  /\ pc' = [pc EXCEPT ![t] = "idle"]
  /\ result' = [result EXCEPT ![t] = Err("Timeout", "")]
  /\ UNCHANGED <<clientVars, rxq, query, sends, received, prev, stale, sent, codecVars>>

\* Err(_) => { retries += 1; continue }, then the loop condition, then either
\* the next attempt or Err(Error::Timeout).  tokio's timeout polls recv before
\* the timer, so the timer wins only while no datagram is queued.
RecvTimeout(t) ==
  /\ pc[t] = "recv"
  /\ rxq = <<>>
  /\ retries' = [retries EXCEPT ![t] = @ + 1]
  /\ timeouts' = [timeouts EXCEPT ![t] = @ + 1]
  /\ IF loop_continues(retries[t] + 1, config.max_retries)
       THEN /\ pc' = [pc EXCEPT ![t] = "send"]
            /\ result' = result
       ELSE /\ pc' = [pc EXCEPT ![t] = "idle"]
            /\ result' = [result EXCEPT ![t] = Err("Timeout", "")]
  /\ UNCHANGED <<clientVars, rxq, query, sends, received, prev, stale, sent, codecVars>>

(***************************************************************************)
(* The peer: a datagram reaches the client's socket.  `for` names the      *)
(* caller whose request it answers (0: unsolicited).                       *)
(***************************************************************************)
Deliver(d, for) ==
  /\ handle = "open"
  /\ Len(rxq) < MaxQueue
  /\ rxq' = Append(rxq, [for |-> for, data |-> d])
  /\ UNCHANGED <<clientVars, taskVars, codecVars>>

(***************************************************************************)
(* Spec: one caller at a time on the handle, any peer behaviour.           *)
(***************************************************************************)
NoCall == [op |-> "none"]

Callers == {1}

Init ==
  /\ handle = "none"
  /\ server_addr \in TransportPeers
  /\ config \in [max_retries : 0..MaxRetries]
  /\ rxq = <<>>
  /\ pc = [t \in Tasks |-> "idle"]
  /\ query = [t \in Tasks |-> NoQuery]
  /\ retries = [t \in Tasks |-> 0]
  /\ sends = [t \in Tasks |-> 0]
  /\ timeouts = [t \in Tasks |-> 0]
  /\ result = [t \in Tasks |-> Pending]
  /\ received = [t \in Tasks |-> <<>>]
  /\ prev = "None"
  /\ stale = <<>>
  /\ sent = [t \in Tasks |-> <<>>]
  /\ cop = "none"
  /\ cargs = NoCall
  /\ cret = Pending
  /\ cdone = FALSE

Next ==
  \/ \E os \in {"open", "Bind", "Connect"} : connect_with_config(os)
  \/ \E t \in Callers : query_info(t)
  \/ \E t \in Callers : query_rules(t)
  \/ \E t \in Callers : query_client_list(t)
  \/ \E t \in Callers : query_detailed_player_info(t)
  \/ \E t \in Callers, n \in Nonces : query_ping(t, n)
  \/ \E t \in Callers, p \in Passwords, c \in Commands : rcon_command(t, p, c)
  \/ \E t \in Callers, os_ok \in BOOLEAN : SendAttempt(t, os_ok)
  \/ \E t \in Callers : RecvDatagram(t)
  \/ \E t \in Callers : RecvError(t)
  \/ \E t \in Callers : RecvTimeout(t)
  \/ \E d \in Responses(server_addr) : Deliver(d, 0)

Spec == Init /\ [][Next]_vars

(***************************************************************************)
(* EntrySpec: one caller that makes every call through the uniform entry   *)
(* point Client::query.  The peer sends a server-info reply, the echo of   *)
(* one ping nonce, or a datagram shorter than a header.                    *)
(***************************************************************************)
EntryResponses(peer) ==
  IF ~peer.v4 THEN {SAMP_SIGNATURE}
  ELSE {SAMP_SIGNATURE,
        EchoHeader(peer, "Information") \o InfoPayload,
        EchoHeader(peer, "Ping") \o <<170, 187, 204, 221>>}

EntryNext ==
  \/ \E os \in {"open", "Bind", "Connect"} : connect_with_config(os)
  \/ \E t \in Callers, k \in QueryType : \E n \in NoncesOf(k) : client_query(t, k, n)
  \/ \E t \in Callers, os_ok \in BOOLEAN : SendAttempt(t, os_ok)
  \/ \E t \in Callers : RecvDatagram(t)
  \/ \E t \in Callers : RecvError(t)
  \/ \E t \in Callers : RecvTimeout(t)
  \/ \E d \in EntryResponses(server_addr) : Deliver(d, 0)

EntrySpec == Init /\ [][EntryNext]_vars

(***************************************************************************)
(* CodecSpec: the pure functions of the codec, each applied once to an     *)
(* input drawn from a bounded set.                                         *)
(***************************************************************************)
MaxEntries == 2

Local == V4(127, 0, 0, 1, 7777)

\* The wire encoding of section 3 of the specification, as a peer produces it.
EncodeStr8(str) == <<Len(str)>> \o str

EncodeStr32(str) == ToLE(Len(str), 4) \o str

EncodeI32(v) ==
  LET low == v % 16777216
      high == (v - low) \div 16777216
  IN ToLE(low, 3) \o <<IF high < 0 THEN high + 256 ELSE high>>

EncodeU32(v) == ToLE(v.lo, 2) \o ToLE(v.hi, 2)

EncodeInfo(v) ==
  <<IF v.password THEN 1 ELSE 0>> \o ToLE(v.players, 2) \o ToLE(v.max_players, 2)
  \o EncodeStr32(v.hostname) \o EncodeStr32(v.gamemode) \o EncodeStr32(v.language)

EncodeRule(e) == EncodeStr8(e.name) \o EncodeStr8(e.value)

EncodePlayer(e) == EncodeStr8(e.name) \o EncodeI32(e.score)

EncodeDetailed(e) ==
  <<e.id>> \o EncodeStr8(e.name) \o EncodeI32(e.score) \o EncodeU32(e.ping)

RECURSIVE Concat(_)
Concat(ss) == IF ss = <<>> THEN <<>> ELSE Head(ss) \o Concat(Tail(ss))

EncodeList(k, es) ==
  ToLE(Len(es), 2)
  \o Concat([i \in 1..Len(es) |->
               CASE k = "Rules" -> EncodeRule(es[i])
                 [] k = "ClientList" -> EncodePlayer(es[i])
                 [] k = "DetailedPlayerInfo" -> EncodeDetailed(es[i])])

Encode(k, v) == IF k = "Information" THEN EncodeInfo(v) ELSE EncodeList(k, v)

\* Values of the result types.  A list value is the sequence of its entries.
Strings == {<<>>, <<72, 105>>, <<195, 169>>}

InfoValues ==
  [password : BOOLEAN, players : {0, 5, 65535}, max_players : {50},
   hostname : Strings, gamemode : Strings, language : Strings]

RuleEntries == [name : {<<>>, <<119>>}, value : {<<49>>, <<195, 169>>}]

PlayerEntries == [name : {<<>>, <<65, 108>>}, score : {42, -1, 2147483647, -2147483647 - 1}]

DetailedEntries ==
  [id : {0, 7, 255}, name : {<<65, 108>>}, score : {42, -1},
   ping : {[hi |-> 0, lo |-> 25], [hi |-> 65535, lo |-> 65535]}]

SeqsUpTo(S, n) == UNION {[1..m -> S] : m \in 0..n}

Values(k) ==
  CASE k = "Information" -> InfoValues
    [] k = "Rules" -> SeqsUpTo(RuleEntries, MaxEntries)
    [] k = "ClientList" -> SeqsUpTo(PlayerEntries, MaxEntries)
    [] k = "DetailedPlayerInfo" -> SeqsUpTo(DetailedEntries, MaxEntries)

DecoderKinds == {"Information", "Rules", "ClientList", "DetailedPlayerInfo"}

Trailing == {<<>>, <<0>>, <<255, 1>>}

\* One complete payload per decoder, and every payload that stops short of it.
SamplePayload(k) ==
  CASE k = "Information" -> InfoPayload
    [] k = "Rules" -> <<2, 0, 1, 119, 1, 49, 1, 116, 2, 49, 50>>
    [] k = "ClientList" -> <<1, 0, 2, 65, 108, 42, 0, 0, 0>>
    [] k = "DetailedPlayerInfo" -> <<1, 0, 7, 2, 65, 108, 42, 0, 0, 0, 25, 0, 0, 0>>

Prefixes(s) == {Take(s, n) : n \in 0..Len(s)}

ShortPayloads(k) == Prefixes(SamplePayload(k)) \ {SamplePayload(k)}

Payloads ==
  UNION {Prefixes(SamplePayload(k)) : k \in DecoderKinds}
  \cup UNION {Prefixes(n) : n \in Nonces}
  \cup {<<32>>, <<255>>, <<1, 0, 1, 255, 0>>, <<0, 0, 0, 0, 0, 1, 8, 0, 0>>,
        <<0, 0, 0, 0, 0, 0, 0, 0, 1>>, <<195, 169>>, <<0, 0>>, <<0, 0, 255>>}

Datagrams ==
  LET good == EchoHeader(Local, "Information") \o InfoPayload
  IN Prefixes(good)
     \cup {[good EXCEPT ![i] = b] : i \in 1..4, b \in {0, 115}}
     \cup {EchoHeader(Local, k) : k \in QueryType}

TypedResponses ==
  {EchoHeader(Local, "Information") \o p : p \in Payloads}
  \cup {SAMP_SIGNATURE, <<88>> \o Tail(EchoHeader(Local, "Information")) \o InfoPayload}

ApplyCreateQuery ==
  /\ cop = "create_query" /\ ~cdone
  /\ cret' = create_query(cargs.server_addr, cargs.query_type)
  /\ cdone' = TRUE
  /\ UNCHANGED <<cop, cargs, clientVars, rxq, taskVars>>

ApplyCreateRconQuery ==
  /\ cop = "create_rcon_query" /\ ~cdone
  /\ cret' = create_rcon_query(cargs.server_addr, cargs.password, cargs.command)
  /\ cdone' = TRUE
  /\ UNCHANGED <<cop, cargs, clientVars, rxq, taskVars>>

ApplyCreatePingQuery ==
  /\ cop = "create_ping_query" /\ ~cdone
  /\ cret' = create_ping_query(cargs.server_addr, cargs.random_bytes)
  /\ cdone' = TRUE
  /\ UNCHANGED <<cop, cargs, clientVars, rxq, taskVars>>

ApplyParseResponse ==
  /\ cop = "parse_response" /\ ~cdone
  /\ cret' = parse_response(cargs.data, cargs.query_type)
  /\ cdone' = TRUE
  /\ UNCHANGED <<cop, cargs, clientVars, rxq, taskVars>>

\* A typed query from the point where send_query returned `response`.
ApplyTyped ==
  /\ cop = "typed" /\ ~cdone
  /\ cret' = typed_result(cargs.query_type, cargs.random_bytes, cargs.response)
  /\ cdone' = TRUE
  /\ UNCHANGED <<cop, cargs, clientVars, rxq, taskVars>>

\* Prefix values around the limit, and the bytes that follow the prefix:
\* none, one invalid byte, one byte fewer than announced, exactly as many,
\* one more.
PrefixLengths ==
  {0, 3, MAX_PACKET_SIZE - 1, MAX_PACKET_SIZE, MAX_PACKET_SIZE + 1, 65535}

Bodies(n) ==
  {<<>>, <<255>>}
  \cup {Fill(m, 97) : m \in {n - 1, n, n + 1} \cap 0..(MAX_PACKET_SIZE + 2)}

ReaderCalls ==
  UNION {[width : {16}, data : {ToLE(n, 2) \o b : b \in Bodies(n)}]
           : n \in PrefixLengths}
  \cup UNION {[width : {32},
               data : {ToLE(n, 2) \o ToLE(hi, 2) \o b : b \in Bodies(n)}]
                : n \in PrefixLengths, hi \in {0, 1, 65535}}

\* One of the two wide length-prefixed readers on a fresh cursor over `data`.
ApplyReadString ==
  /\ cop = "read_string" /\ ~cdone
  /\ cret' = IF cargs.width = 16
               THEN read_length_prefixed_string_16(cargs.data, 0)
               ELSE read_length_prefixed_string_32(cargs.data, 0)
  /\ cdone' = TRUE
  /\ UNCHANGED <<cop, cargs, clientVars, rxq, taskVars>>

\* QueryType::opcode of one kind, QueryType::from_opcode of one byte.
ApplyOpcode ==
  /\ cop = "opcode" /\ ~cdone
  /\ cret' = Ok([opcode |-> opcode(cargs.query_type),
                 back |-> from_opcode(opcode(cargs.query_type))])
  /\ cdone' = TRUE
  /\ UNCHANGED <<cop, cargs, clientVars, rxq, taskVars>>

ApplyFromOpcode ==
  /\ cop = "from_opcode" /\ ~cdone
  /\ cret' = Ok(from_opcode(cargs.opcode))
  /\ cdone' = TRUE
  /\ UNCHANGED <<cop, cargs, clientVars, rxq, taskVars>>

\* The gateway turns the error of a failed handler into a response.
ApplyIntoResponse ==
  /\ cop = "into_response" /\ ~cdone
  /\ cret' = Ok([status |-> into_response(cargs.error)])
  /\ cdone' = TRUE
  /\ UNCHANGED <<cop, cargs, clientVars, rxq, taskVars>>

\* The peer encodes `value`, appends `trailing`, and the typed query decodes it.
ApplyRoundTrip ==
  /\ cop = "roundtrip" /\ ~cdone
  /\ cret' = typed_result(cargs.query_type, <<>>,
                          EchoHeader(Local, cargs.query_type)
                          \o Encode(cargs.query_type, cargs.value) \o cargs.trailing)
  /\ cdone' = TRUE
  /\ UNCHANGED <<cop, cargs, clientVars, rxq, taskVars>>

CodecInit ==
  /\ handle = "none"
  /\ server_addr = Local
  /\ config = [max_retries |-> MAX_RETRIES]
  /\ rxq = <<>>
  /\ pc = [t \in Tasks |-> "idle"]
  /\ query = [t \in Tasks |-> NoQuery]
  /\ retries = [t \in Tasks |-> 0]
  /\ sends = [t \in Tasks |-> 0]
  /\ timeouts = [t \in Tasks |-> 0]
  /\ result = [t \in Tasks |-> Pending]
  /\ received = [t \in Tasks |-> <<>>]
  /\ prev = "None"
  /\ stale = <<>>
  /\ sent = [t \in Tasks |-> <<>>]
  /\ cret = Pending
  /\ cdone = FALSE
  /\ \/ /\ cop = "create_query"
        /\ cargs \in [server_addr : Peers, query_type : QueryType]
     \/ /\ cop = "create_rcon_query"
        /\ cargs \in [server_addr : {Local, V6(7777)},
                      password : {Fill(n, 97) : n \in {0, 2, 255, 256}},
                      command : {Fill(n, 99) : n \in {0, 1, 1024, 1025}}]
     \/ /\ cop = "create_ping_query"
        /\ cargs \in [server_addr : Peers, random_bytes : Nonces]
     \/ /\ cop = "parse_response"
        /\ cargs \in [data : Datagrams, query_type : QueryType]
     \/ /\ cop = "typed"
        /\ cargs \in [query_type : QueryType \ {"Ping"}, random_bytes : {<<>>},
                      response : TypedResponses]
                     \cup [query_type : {"Ping"}, random_bytes : Nonces,
                           response : TypedResponses]
     \/ /\ cop = "roundtrip"
        /\ \E k \in DecoderKinds :
             cargs \in [query_type : {k}, value : Values(k), trailing : Trailing]
     \/ /\ cop = "read_string"
        /\ cargs \in ReaderCalls
     \/ /\ cop = "opcode"
        /\ cargs \in [query_type : QueryType]
     \/ /\ cop = "from_opcode"
        /\ cargs \in [opcode : 0..255]
     \/ /\ cop = "into_response"
        /\ cargs \in [error : ApiError]

CodecNext ==
  \/ ApplyCreateQuery
  \/ ApplyCreateRconQuery
  \/ ApplyCreatePingQuery
  \/ ApplyParseResponse
  \/ ApplyTyped
  \/ ApplyRoundTrip
  \/ ApplyReadString
  \/ ApplyOpcode
  \/ ApplyFromOpcode
  \/ ApplyIntoResponse

CodecSpec == CodecInit /\ [][CodecNext]_vars

(***************************************************************************)
(* ConcSpec: two callers share one handle.  Every typed call takes &self   *)
(* and the Client holds no lock, so a second call may start while the      *)
(* first is suspended in send or recv.  The peer answers requests: a reply *)
(* to caller t is the echoed header of t's request and its payload.        *)
(***************************************************************************)
ReplyTo(q) ==
  Take(q.packet, HEADER_SIZE)
  \o (IF q.kind = "Ping" THEN q.random_bytes ELSE InfoPayload)

ServerReply(t) ==
  /\ pc[t] = "recv"
  /\ Deliver(ReplyTo(query[t]), t)

ConcInit ==
  /\ Init
  /\ server_addr = Local
  /\ config.max_retries >= 1

ConcNext ==
  \/ \E os \in {"open", "Bind", "Connect"} : connect_with_config(os)
  \/ \E t \in Tasks : query_info(t)
  \/ \E t \in Tasks, n \in Nonces : query_ping(t, n)
  \/ \E t \in Tasks, os_ok \in BOOLEAN : SendAttempt(t, os_ok)
  \/ \E t \in Tasks : RecvDatagram(t)
  \/ \E t \in Tasks : RecvError(t)
  \/ \E t \in Tasks : RecvTimeout(t)
  \/ \E t \in Tasks : ServerReply(t)

ConcSpec == ConcInit /\ [][ConcNext]_vars

(***************************************************************************)
(* Properties                                                              *)
(***************************************************************************)
\* The typed call of caller t has returned.
Ended(t) == pc[t] = "idle" /\ query[t].kind # "None"

Timeout == Err("Timeout", "")

\* C1: a call returns Timeout only after exactly max_retries send attempts,
\* each followed by a timed-out receive; a call whose request was built and
\* whose every send attempt was followed by a timed-out receive (the peer
\* delivered nothing to it) returns Timeout; and no call makes more than
\* max_retries send attempts.
C1_SilentPeerExactlyNSends ==
  \A t \in Tasks :
    /\ sends[t] <= config.max_retries
    /\ (result[t] = Timeout
          => sends[t] = config.max_retries /\ timeouts[t] = config.max_retries)
    /\ (Ended(t) /\ query[t].packet # <<>> /\ sends[t] = timeouts[t]
          => result[t] = Timeout /\ sends[t] = config.max_retries)

C1_Witness ==
  \E t \in Tasks :
    /\ Ended(t) /\ result[t] = Timeout
    /\ config.max_retries = MaxRetries /\ sends[t] = MaxRetries /\ timeouts[t] = MaxRetries

HasValidHeader(d) == Len(d) >= 11 /\ <<d[1], d[2], d[3], d[4]>> = <<83, 65, 77, 80>>

\* The four bytes after the 11-byte header of a datagram.
NonceOf(d) == <<d[12], d[13], d[14], d[15]>>

\* C2: query_ping returns Ok only if the datagram it received has a valid
\* header and its first four payload bytes are the nonce carried by the
\* request; a received datagram with a valid header whose payload is shorter
\* than 4 bytes or differs from the nonce yields
\* InvalidResponse("Invalid ping response").
C2_PingOnlyOnNonceEcho ==
  \A t \in Tasks :
    Ended(t) /\ query[t].kind = "Ping" =>
      /\ result[t].ok =>
           /\ received[t] # <<>>
           /\ HasValidHeader(received[t][1].data)
           /\ Len(received[t][1].data) >= 15
           /\ Len(query[t].packet) = 15
           /\ NonceOf(received[t][1].data) = NonceOf(query[t].packet)
      /\ \A i \in 1..Len(received[t]) :
           LET d == received[t][i].data
           IN HasValidHeader(d)
              /\ (Len(d) < 15 \/ NonceOf(d) # NonceOf(query[t].packet))
              => result[t] = Err("InvalidResponse", "Invalid ping response")

C2_Witness ==
  \E t \in Tasks :
    /\ Ended(t) /\ query[t].kind = "Ping" /\ result[t].ok
    /\ received[t] # <<>>
    /\ NonceOf(received[t][1].data) = <<170, 187, 204, 222>>

\* C3 (as claimed): a typed query of a decoder kind whose response has a
\* valid header and a payload that stops short of the kind's schema returns
\* an error value of the library; it does not panic.
C3_ShortPayloadIsError ==
  (/\ cdone /\ cop = "typed"
   /\ cargs.query_type \in DecoderKinds
   /\ HasValidHeader(cargs.response)
   /\ Drop(cargs.response, 11) \in ShortPayloads(cargs.query_type))
  => ~cret.ok /\ cret.err.kind \in ErrorKinds

\* C4 (as claimed): calls on one handle do not overlap, so there is no state
\* in which one call is awaiting a datagram while another call on the same
\* handle has been handed the response to the first call's request.
C4_NoCrossDelivery ==
  \A t1 \in Tasks : \A t2 \in Tasks \ {t1} :
    ~(/\ pc[t1] = "recv"
      /\ received[t2] # <<>>
      /\ received[t2][1].for = t1)

\* C5: parse_response fails with InvalidResponse (too short) on fewer than 11
\* bytes, with InvalidResponse (bad signature) on 11 or more bytes that do
\* not start with 'SAMP', and otherwise returns exactly the bytes after
\* offset 11.
C5_ValidateAndStrip ==
  cdone /\ cop = "parse_response" =>
    LET d == cargs.data
    IN /\ Len(d) < 11 =>
            cret = Err("InvalidResponse", "Response packet is too short")
       /\ Len(d) >= 11 /\ ~HasValidHeader(d) =>
            cret = Err("InvalidResponse", "Invalid SAMP signature in response")
       /\ HasValidHeader(d) =>
            /\ cret.ok
            /\ Len(cret.val) = Len(d) - 11
            /\ \A i \in 1..Len(cret.val) : cret.val[i] = d[i + 11]

C5_Witness ==
  /\ cdone /\ cop = "parse_response"
  /\ Len(cargs.data) = 11 /\ cret = Ok(<<>>)

\* Bytes 4..11 of a response header: any address, port and opcode byte.
HeaderTails ==
  {SubBytes(EchoHeader(p, k), 5, 11) : p \in {q \in Peers : q.v4}, k \in QueryType}
  \cup {<<1, 2, 3, 4, 5, 6, 0>>, <<255, 255, 255, 255, 255, 255, 255>>}

WithHeaderTail(d, h) == [i \in 1..Len(d) |-> IF i >= 5 /\ i <= 11 THEN h[i - 4] ELSE d[i]]

\* C6: the result of a typed query does not depend on bytes 4..11 of the
\* response: replacing the echoed address, port and opcode by any other
\* (another kind's opcode, an unknown byte) gives the same result.
C6_HeaderTailIgnored ==
  (cdone /\ cop = "typed" /\ Len(cargs.response) >= 11) =>
    \A h \in HeaderTails :
      typed_result(cargs.query_type, cargs.random_bytes,
                   WithHeaderTail(cargs.response, h)) = cret

\* A Rules query answered with the opcode 'i' and another address succeeds.
C6_Witness ==
  /\ cdone /\ cop = "typed" /\ cargs.query_type = "Rules"
  /\ Len(cargs.response) > 11 /\ cargs.response[11] = 105
  /\ cret.ok /\ cret.val.rules # {}

\* C7: for an IPv4 peer a.b.c.d:port and a kind k, create_query returns the
\* 11 bytes 'S','A','M','P', a, b, c, d, port mod 256, port div 256, opcode(k).
C7_RequestHeader ==
  (cdone /\ cop = "create_query" /\ cargs.server_addr.v4) =>
    LET a == cargs.server_addr
    IN /\ cret.ok
       /\ Len(cret.val) = 11
       /\ cret.val = <<83, 65, 77, 80, a.octets[1], a.octets[2], a.octets[3],
                       a.octets[4], a.port % 256, a.port \div 256,
                       opcode(cargs.query_type)>>

C7_Witness ==
  /\ cdone /\ cop = "create_query"
  /\ cargs.server_addr = V4(127, 0, 0, 1, 7777) /\ cargs.query_type = "Rules"
  /\ cret = Ok(<<83, 65, 77, 80, 127, 0, 0, 1, 97, 30, 114>>)

\* C8 (as claimed): building any request for a peer that is not IPv4 fails
\* with the error kind UnsupportedAddress.
C8_UnsupportedAddress ==
  (/\ cdone /\ cop \in {"create_query", "create_ping_query", "create_rcon_query"}
   /\ ~cargs.server_addr.v4)
  => ~cret.ok /\ cret.err.kind = "UnsupportedAddress"

\* C9 (as claimed): create_rcon_query fails with the error kind
\* InvalidArgument when the password is longer than 255 bytes or the command
\* longer than 1024 bytes, and succeeds at 255 and 1024.
C9_RconInvalidArgument ==
  (cdone /\ cop = "create_rcon_query" /\ cargs.server_addr.v4) =>
    IF Len(cargs.password) > 255 \/ Len(cargs.command) > 1024
      THEN ~cret.ok /\ cret.err.kind = "InvalidArgument"
      ELSE cret.ok

RECURSIVE Range(_)
Range(es) == IF es = <<>> THEN {} ELSE {Head(es)} \cup Range(Tail(es))

DistinctNames(es) == \A i, j \in 1..Len(es) : es[i].name = es[j].name => i = j

\* The value of the result type that a sequence of entries stands for.
Expected(k, v) ==
  CASE k = "Information" -> v
    [] k = "Rules" -> [rules |-> Range(v)]
    [] k = "ClientList" -> [players |-> v]
    [] k = "DetailedPlayerInfo" -> [players |-> v]

\* C10: decoding the wire encoding of a value of a decoder's result type
\* (for Rules: entries with distinct names), followed by any trailing bytes,
\* gives that value.
C10_RoundTrip ==
  (/\ cdone /\ cop = "roundtrip"
   /\ cargs.query_type = "Rules" => DistinctNames(cargs.value))
  => cret = Ok(Expected(cargs.query_type, cargs.value))

C10_Witness ==
  /\ cdone /\ cop = "roundtrip" /\ cargs.query_type = "Information"
  /\ cargs.trailing = <<255, 1>>
  /\ cargs.value.hostname = <<195, 169>> /\ cargs.value.language = <<72, 105>>
  /\ cret.ok /\ cret.val = cargs.value

\* The length prefix of a reader call: its width in bytes and its two halves.
PrefixBytes == IF cargs.width = 16 THEN 2 ELSE 4

PrefixLow == cargs.data[1] + 256 * cargs.data[2]

PrefixHigh ==
  IF cargs.width = 16 THEN 0 ELSE cargs.data[3] + 256 * cargs.data[4]

\* C11: a 16- or 32-bit length prefix equal to MAX_PACKET_SIZE is accepted
\* and the MAX_PACKET_SIZE bytes after it are returned as the string; a prefix
\* of MAX_PACKET_SIZE + 1 or more is rejected with InvalidResponse whatever
\* follows it (nothing, too few bytes, bytes that are not UTF-8), so no string
\* byte was read.
C11_PrefixBoundary ==
  (cdone /\ cop = "read_string") =>
    LET body == Drop(cargs.data, PrefixBytes)
    IN /\ (/\ PrefixHigh = 0 /\ PrefixLow = MAX_PACKET_SIZE
           /\ Len(body) >= MAX_PACKET_SIZE
           /\ \A i \in 1..MAX_PACKET_SIZE : body[i] < 128)
          => cret = Read(Take(body, MAX_PACKET_SIZE),
                         PrefixBytes + MAX_PACKET_SIZE)
       /\ (PrefixHigh > 0 \/ PrefixLow > MAX_PACKET_SIZE)
          => cret = Err("InvalidResponse",
                        "String length exceeds maximum packet size")

C11_Witness ==
  /\ cdone /\ cop = "read_string"
  /\ PrefixHigh = 0 /\ PrefixLow = MAX_PACKET_SIZE
  /\ cret.ok /\ Len(cret.val) = MAX_PACKET_SIZE

\* C12: rcon_command returns RconAuthFailed exactly when the validated
\* response is the 11-byte header alone; a non-empty payload that is valid
\* UTF-8, the single blank 0x20 included, is returned unchanged as the
\* message.
C12_RconEmptyIffAuthFailed ==
  (/\ cdone /\ cop = "typed" /\ cargs.query_type = "Rcon"
   /\ HasValidHeader(cargs.response)) =>
    LET payload == Drop(cargs.response, HEADER_SIZE)
    IN /\ (cret = Err("RconAuthFailed", "")) <=> (Len(cargs.response) = HEADER_SIZE)
       /\ (payload # <<>> /\ valid_utf8(payload)) => cret = Ok([message |-> payload])

C12_Witness ==
  /\ cdone /\ cop = "typed" /\ cargs.query_type = "Rcon"
  /\ HasValidHeader(cargs.response)
  /\ Drop(cargs.response, HEADER_SIZE) = <<32>>
  /\ cret = Ok([message |-> <<32>>])

\* The ASCII codes of 'i', 'r', 'c', 'd', 'p', 'x'.
Letters ==
  [Information |-> 105, Rules |-> 114, ClientList |-> 99,
   DetailedPlayerInfo |-> 100, Ping |-> 112, Rcon |-> 120]

\* C13: opcode sends the six kinds to six different bytes, the letters
\* i, r, c, d, p, x; from_opcode of the opcode of a kind is that kind, and
\* from_opcode of any of the other 250 bytes is None.
C13_OpcodeInverse ==
  /\ (\A k1 \in QueryType : \A k2 \in QueryType \ {k1} : Letters[k1] # Letters[k2])
  /\ (cdone /\ cop = "opcode") =>
       cret = Ok([opcode |-> Letters[cargs.query_type], back |-> cargs.query_type])
  /\ (cdone /\ cop = "from_opcode") =>
       IF \E k \in QueryType : Letters[k] = cargs.opcode
         THEN cret = Ok(CHOOSE k \in QueryType : Letters[k] = cargs.opcode)
         ELSE cret = Ok("None")

C13_Witness ==
  /\ cdone /\ cop = "from_opcode"
  /\ cargs.opcode = 120 /\ cret = Ok("Rcon")

\* C14: when the 16-bit count at the start of the payload is 0, query_rules
\* returns Ok with no rules and query_client_list and
\* query_detailed_player_info return Ok with no players, whatever bytes
\* follow the count.
C14_ZeroCountIsEmpty ==
  (/\ cdone /\ cop = "typed"
   /\ cargs.query_type \in {"Rules", "ClientList", "DetailedPlayerInfo"}
   /\ HasValidHeader(cargs.response)
   /\ Len(cargs.response) >= HEADER_SIZE + 2
   /\ cargs.response[HEADER_SIZE + 1] = 0 /\ cargs.response[HEADER_SIZE + 2] = 0)
  => cret = IF cargs.query_type = "Rules" THEN Ok([rules |-> {}])
            ELSE Ok([players |-> <<>>])

C14_Witness ==
  /\ cdone /\ cop = "typed" /\ cargs.query_type = "Rules"
  /\ HasValidHeader(cargs.response)
  /\ Drop(cargs.response, HEADER_SIZE) = <<0, 0, 255>>
  /\ cret = Ok([rules |-> {}])

\* C15: the gateway answers an address parse failure with 400, Timeout with
\* 504, Connect and Bind with 502, RconAuthFailed with 401 and every other
\* query error with 500.
C15_StatusMapping ==
  (cdone /\ cop = "into_response" /\ cargs.error.variant # "Internal") =>
    LET e == cargs.error
    IN cret.val.status =
         CASE e.variant = "AddrParse" -> 400
           [] e.kind = "Timeout" -> 504
           [] e.kind \in {"Connect", "Bind"} -> 502
           [] e.kind = "RconAuthFailed" -> 401
           [] OTHER -> 500

\* C16: inside send_query another attempt follows a timed-out receive and
\* nothing else.  A send that fails ends the call at once with Send, a
\* receive that fails ends it at once with Receive, and after either the call
\* sends nothing more, whatever number of attempts is left.
C16_OnlyTimeoutRetries ==
  [][\A t \in Tasks :
       /\ (pc[t] = "send" /\ sends'[t] = sends[t] + 1 /\ pc'[t] # "recv")
            => (pc'[t] = "idle" /\ result'[t] = Err("Send", ""))
       /\ (pc[t] = "recv" /\ pc'[t] # "recv" /\ rxq' = rxq
           /\ timeouts'[t] = timeouts[t])
            => (pc'[t] = "idle" /\ result'[t] = Err("Receive", ""))
       /\ (pc[t] = "recv" /\ pc'[t] = "send")
            => (timeouts'[t] = timeouts[t] + 1 /\ rxq' = rxq)
       /\ (result[t] \in {Err("Send", ""), Err("Receive", "")}
           /\ sends'[t] # sends[t])
            => (pc[t] = "idle" /\ sends'[t] = 0)
    ]_vars

C16_Witness ==
  \E t \in Tasks :
    /\ Ended(t) /\ result[t] = Err("Send", "")
    /\ sends[t] = 1 /\ timeouts[t] = 0 /\ sends[t] < config.max_retries

\* What the typed call of kind q.kind returns for a datagram d that fails
\* validation or decoding in one of the five ways: shorter than a header,
\* wrong magic, a ping reply without the nonce of the request, an RCON reply
\* with no payload, an RCON reply that is not UTF-8.
Rejection(q, d) ==
  IF Len(d) < HEADER_SIZE
    THEN <<Err("InvalidResponse", "Response packet is too short")>>
  ELSE IF ~HasValidHeader(d)
    THEN <<Err("InvalidResponse", "Invalid SAMP signature in response")>>
  ELSE IF q.kind = "Ping" /\ (Len(d) < HEADER_SIZE + 4 \/ NonceOf(d) # q.random_bytes)
    THEN <<Err("InvalidResponse", "Invalid ping response")>>
  ELSE IF q.kind = "Rcon" /\ Len(d) = HEADER_SIZE
    THEN <<Err("RconAuthFailed", "")>>
  ELSE IF q.kind = "Rcon" /\ \E i \in (HEADER_SIZE + 1)..Len(d) : d[i] = 255
    THEN <<Err("Utf8", "invalid utf-8 sequence")>>
  ELSE <<>>

\* C17: once a typed call has been handed a datagram it is over, without
\* another send or receive: it took exactly that one datagram off the socket,
\* on the attempt that followed its last timeout, and when the datagram fails
\* validation or decoding (too short, wrong magic, invalid UTF-8, wrong ping
\* nonce, empty RCON payload) the call returns that error, however many
\* attempts were left.
C17_BadReplyNotRetried ==
  /\ [](\A t \in Tasks :
          received[t] # <<>> =>
            /\ Len(received[t]) = 1
            /\ pc[t] \in {"idle", "panicked"}
            /\ sends[t] = timeouts[t] + 1
            /\ \A e \in Range(Rejection(query[t], received[t][1].data)) :
                 pc[t] = "idle" /\ result[t] = e)
  /\ [][\A t \in Tasks :
          /\ (received'[t] # received[t] /\ received'[t] # <<>>)
               => /\ pc[t] = "recv" /\ rxq # <<>>
                  /\ rxq' = Tail(rxq)
                  /\ received'[t] = <<[for |-> Head(rxq).for,
                                       data |-> recv(Head(rxq).data)]>>
                  /\ sends'[t] = sends[t]
          /\ (sends'[t] > sends[t]) => received[t] = <<>>
     ]_vars

C17_Witness ==
  \E t \in Tasks :
    /\ Ended(t) /\ received[t] # <<>>
    /\ result[t] = Err("InvalidResponse", "Invalid ping response")
    /\ sends[t] = 1 /\ sends[t] < config.max_retries
    /\ rxq # <<>>

\* The phases of a logical query as positions of the call: Idle is "idle",
\* Sending "send", Awaiting "recv"; Received, TimedOut and Failed are the
\* steps that leave "recv" or "send".  Moves(t) holds of a step in which
\* caller t changes phase along Idle -> Sending -> Awaiting -> Sending or
\* leaves the query, and in which every receive wait is entered by a send.
Moves(t) ==
  /\ (pc'[t] # pc[t]) =>
       \/ pc[t] = "idle" /\ pc'[t] = "send" /\ sends'[t] = 0 /\ retries'[t] = 0
       \/ pc[t] = "send" /\ pc'[t] = "recv" /\ sends'[t] = sends[t] + 1
       \/ /\ pc[t] = "recv" /\ pc'[t] = "send"
          /\ timeouts'[t] = timeouts[t] + 1 /\ retries'[t] = retries[t] + 1
          /\ retries'[t] < config.max_retries
       \/ pc[t] = "send" /\ pc'[t] = "idle" /\ result'[t] = Err("Send", "")
       \/ pc[t] = "recv" /\ pc'[t] \in {"idle", "panicked"}
  /\ (pc'[t] = "recv") => sends'[t] = timeouts'[t] + 1

\* Caller t enters Failed(Timeout) from a timed-out receive that brings the
\* attempt counter to max_retries.
FromTimedOut(t) ==
  /\ pc[t] = "recv"
  /\ timeouts'[t] = timeouts[t] + 1
  /\ retries'[t] = retries[t] + 1
  /\ retries'[t] = config.max_retries

\* C18 as stated: a query follows only the listed transitions, a receive
\* wait always follows a send of the same attempt, and Failed(Timeout) is
\* entered only from TimedOut with the attempt counter equal to max_retries.
C18_TimeoutOnlyFromTimedOut ==
  [][\A t \in Tasks :
       /\ Moves(t)
       /\ (result'[t] = Timeout /\ result[t] # Timeout) => FromTimedOut(t)
    ]_vars

\* C18 amended: as above, except that with max_retries = 0 the query goes
\* from Idle to Failed(Timeout) directly, with no send and no receive wait;
\* in either case the attempt counter equals max_retries.
C18_Transitions ==
  [][\A t \in Tasks :
       /\ Moves(t)
       /\ (result'[t] = Timeout /\ result[t] # Timeout) =>
            \/ FromTimedOut(t)
            \/ /\ pc[t] = "idle" /\ pc'[t] = "idle"
               /\ config.max_retries = 0
               /\ retries'[t] = 0 /\ sends'[t] = 0 /\ timeouts'[t] = 0
    ]_vars

C18_Witness ==
  \E t \in Tasks :
    /\ Ended(t) /\ result[t] = Timeout
    /\ config.max_retries = 0 /\ sends[t] = 0 /\ timeouts[t] = 0

\* C19: no step of a query or of the peer changes the server address or the
\* config, and the socket stays open once connect has returned it; a call
\* that has not sent yet has attempt counter 0, whatever the previous call on
\* the handle did; and a call that follows another and ends in Timeout has
\* made max_retries send attempts of its own.
C19_NoPerQueryState ==
  /\ [][/\ server_addr' = server_addr
        /\ config' = config
        /\ (handle # "none" => handle' = handle)]_vars
  /\ [](\A t \in Callers :
          /\ (pc[t] = "send" /\ sends[t] = 0)
               => (retries[t] = 0 /\ timeouts[t] = 0 /\ received[t] = <<>>)
          /\ (prev # "None" /\ pc[t] \in {"send", "recv"})
               => (retries[t] = timeouts[t] /\ sends[t] <= config.max_retries)
          /\ (prev # "None" /\ result[t] = Timeout)
               => (sends[t] = config.max_retries /\ timeouts[t] = config.max_retries))

C19_Witness ==
  \E t \in Callers :
    /\ Ended(t) /\ prev = "Timeout" /\ result[t] = Timeout
    /\ handle = "open"
    /\ config.max_retries = MaxRetries /\ sends[t] = MaxRetries

\* C20: a datagram that is on the socket when a query begins (a reply that
\* came after the previous query had ended, in Timeout or otherwise) is not
\* discarded: the client takes datagrams off the socket only by handing the
\* oldest one to a call in its receive wait; the late datagram stays at the
\* head of the queue until the new query receives, no timeout elapses
\* meanwhile, and what the new query is handed, on its first attempt, is that
\* datagram, which it decodes as the reply to its own request: a ping whose
\* nonce it does not carry fails with InvalidResponse, a server-info reply
\* makes query_info succeed.  Unless its send or receive fails in the
\* operating system (Send, Receive), a query that makes an attempt ends with
\* the late datagram.
C20_LateReplyGoesToNextQuery ==
  /\ [][rxq' # rxq =>
          \/ Len(rxq') = Len(rxq) + 1 /\ SubSeq(rxq', 1, Len(rxq)) = rxq
          \/ /\ rxq # <<>> /\ rxq' = Tail(rxq)
             /\ \E t \in Tasks :
                  /\ pc[t] = "recv"
                  /\ received'[t] = <<[for |-> Head(rxq).for,
                                       data |-> recv(Head(rxq).data)]>>
       ]_vars
  /\ [](\A t \in Callers :
          stale # <<>> =>
            LET d == recv(stale[1].data)
            IN /\ timeouts[t] = 0 /\ retries[t] = 0
               /\ (pc[t] \in {"send", "recv"}) => (rxq # <<>> /\ Head(rxq) = stale[1])
               /\ (received[t] # <<>>) =>
                    /\ received[t] = <<[for |-> stale[1].for, data |-> d]>>
                    /\ sends[t] = 1
                    /\ (query[t].kind = "Ping" /\ HasValidHeader(d)
                        /\ (Len(d) < HEADER_SIZE + 4 \/ NonceOf(d) # query[t].random_bytes))
                         => result[t] = Err("InvalidResponse", "Invalid ping response")
                    /\ (query[t].kind = "Information" /\ HasValidHeader(d)
                        /\ Drop(d, HEADER_SIZE) = InfoPayload)
                         => result[t].ok
               /\ (Ended(t) /\ query[t].packet # <<>> /\ config.max_retries >= 1)
                    => \/ received[t] # <<>>
                       \/ result[t] \in {Err("Send", ""), Err("Receive", "")})

C20_Witness ==
  \E t \in Callers :
    /\ Ended(t) /\ prev = "Timeout" /\ stale # <<>>
    /\ query[t].kind = "Information"
    /\ received[t] = <<[for |-> stale[1].for, data |-> stale[1].data]>>
    /\ sends[t] = 1 /\ timeouts[t] = 0
    /\ result[t].ok

\* The errors of connect and of request building under the names the claim
\* gives them and under the names error.rs has, and the three errors that
\* create_query and create_rcon_query return.
SetupKinds == {"Bind", "Connect", "AddrParse", "UnsupportedAddress", "InvalidArgument"}

BuildErrors ==
  {Err("InvalidResponse", "IPv6 addresses are not supported"),
   Err("InvalidResponse", "RCON password too long (max 255 characters)"),
   Err("InvalidResponse", "RCON command too long (max 1024 characters)")}

\* What Client::query answers for the kind Rcon, before any request is built.
NoRconByKind ==
  Err("InvalidQueryType", "RCON queries require a password and command")

\* C21: send_query ends with the received bytes (which the typed call then
\* decodes), with Send, with Receive or with Timeout, and with nothing else.
\* Bind and Connect come from connect alone, which leaves no handle to query
\* on; the errors of request building come before send_query is entered, so
\* before any send; no call returns an error of a setup kind once it has
\* sent.
C21_SendQueryResults ==
  /\ (handle \in {"Bind", "Connect"}) => \A t \in Tasks : query[t].kind = "None"
  /\ \A t \in Tasks :
       /\ ~result[t].ok => result[t].err.kind \notin SetupKinds
       /\ (pc[t] \in {"send", "recv"}) => (query[t].packet # <<>> /\ result[t] = Pending)
       /\ (Ended(t) /\ query[t].packet = <<>>)
            => /\ sends[t] = 0 /\ received[t] = <<>>
               /\ result[t] \in BuildErrors \cup {NoRconByKind}
       /\ (Ended(t) /\ query[t].packet # <<>> /\ received[t] = <<>>)
            => result[t] \in {Err("Send", ""), Err("Receive", ""), Timeout}
       /\ (received[t] # <<>>)
            => /\ sends[t] >= 1
               /\ result[t] = typed_result(query[t].kind, query[t].random_bytes,
                                           received[t][1].data)
       /\ (result[t] \in BuildErrors /\ sends[t] >= 1) => received[t] # <<>>

C21_Witness ==
  \E t \in Tasks :
    /\ Ended(t) /\ query[t].kind = "Rcon" /\ query[t].packet = <<>>
    /\ result[t] = Err("InvalidResponse", "RCON password too long (max 255 characters)")
    /\ sends[t] = 0 /\ prev = "Timeout"

\* The entries of es that no later entry of es shares its name with.
LastOfEachName(es) ==
  {es[i] : i \in {i \in 1..Len(es) : \A j \in (i + 1)..Len(es) : es[j].name # es[i].name}}

\* C22: query_rules decoding a payload whose entries repeat a name returns a
\* map that holds each name once, with the value of the last entry of that
\* name in payload order; the size of the map is the number of different
\* names among the entries.
C22_LastDuplicateWins ==
  (cdone /\ cop = "roundtrip" /\ cargs.query_type = "Rules") =>
    /\ cret.ok
    /\ cret.val.rules = LastOfEachName(cargs.value)
    /\ \A e1 \in cret.val.rules : \A e2 \in cret.val.rules :
         e1.name = e2.name => e1 = e2
    /\ Cardinality(cret.val.rules)
         = Cardinality({cargs.value[i].name : i \in 1..Len(cargs.value)})

C22_Witness ==
  /\ cdone /\ cop = "roundtrip" /\ cargs.query_type = "Rules"
  /\ cargs.value = <<[name |-> <<119>>, value |-> <<49>>],
                     [name |-> <<119>>, value |-> <<195, 169>>]>>
  /\ cret = Ok([rules |-> {[name |-> <<119>>, value |-> <<195, 169>>]}])

\* The typed call that Client::query makes for a kind other than Rcon.
TypedCall(t, query_type, random_bytes) ==
  CASE query_type = "Information" -> query_info(t)
    [] query_type = "Rules" -> query_rules(t)
    [] query_type = "ClientList" -> query_client_list(t)
    [] query_type = "DetailedPlayerInfo" -> query_detailed_player_info(t)
    [] query_type = "Ping" -> query_ping(t, random_bytes)

\* C23: a step of Client::query with the kind Rcon leaves the caller idle
\* with the error InvalidQueryType, no request built, no send made and the
\* socket untouched, and a call that returned InvalidQueryType never sent;
\* a step of Client::query with any other kind is the step of the typed call
\* of that kind, so what follows it, and its result, are those of the typed
\* call.
C23_QueryByKind ==
  /\ [][\A t \in Tasks : \A k \in QueryType : \A n \in NoncesOf(k) :
          (/\ pc[t] = "idle" /\ rxq' = rxq /\ query'[t].kind = k
           /\ client_query(t, k, n)) =>
            IF k = "Rcon"
              THEN /\ pc'[t] = "idle" /\ result'[t] = NoRconByKind
                   /\ query'[t].packet = <<>> /\ sends'[t] = 0
                   /\ rxq' = rxq
              ELSE TypedCall(t, k, n)
       ]_vars
  /\ [](\A t \in Tasks :
          (~result[t].ok /\ result[t].err.kind = "InvalidQueryType")
            => /\ result[t] = NoRconByKind /\ pc[t] = "idle"
               /\ query[t].packet = <<>> /\ sends[t] = 0 /\ received[t] = <<>>)

C23_Witness ==
  \E t \in Tasks :
    /\ Ended(t) /\ query[t].kind = "Rcon" /\ result[t] = NoRconByKind
    /\ query[t].packet = <<>> /\ sends[t] = 0
    /\ server_addr.v4 /\ rxq # <<>>

\* C24: at every point of send_query the sends made so far are at most
\* max_retries and are as many as the timeout counter (before the send of an
\* attempt) or one more (after it); the counter counts the receives that timed
\* out; and a datagram received during attempt k, 1 <= k <= max_retries, is
\* returned after exactly k sends and k - 1 timed-out receives.
C24_SendsAndTimeouts ==
  \A t \in Tasks :
    /\ sends[t] <= config.max_retries
    /\ sends[t] \in {retries[t], retries[t] + 1}
    /\ retries[t] = timeouts[t]
    /\ (pc[t] = "send") => sends[t] = retries[t]
    /\ (pc[t] = "recv") => sends[t] = retries[t] + 1
    /\ (received[t] # <<>>) =>
         LET k == retries[t] + 1
         IN /\ 1 <= k /\ k <= config.max_retries
            /\ sends[t] = k /\ timeouts[t] = k - 1

C24_Witness ==
  \E t \in Tasks :
    /\ Ended(t) /\ received[t] # <<>> /\ result[t].ok
    /\ retries[t] = 1 /\ sends[t] = 2 /\ timeouts[t] = 1

\* C25: all attempts of one call send the same datagram, the request built
\* before the first attempt (for a ping it ends with the nonce of the call);
\* so a ping call that receives the echo of its first attempt's datagram
\* succeeds, also when that attempt timed out and a later one is waiting.
C25_AttemptsSendSameDatagram ==
  \A t \in Tasks :
    /\ Len(sent[t]) = sends[t]
    /\ \A i \in 1..Len(sent[t]) : sent[t][i] = query[t].packet
    /\ (query[t].kind = "Ping" /\ sent[t] # <<>>) =>
         LET p == sent[t][1]
         IN /\ Len(p) = HEADER_SIZE + 4
            /\ SubSeq(p, HEADER_SIZE + 1, Len(p)) = query[t].random_bytes
    /\ (query[t].kind = "Ping" /\ received[t] # <<>> /\ sent[t] # <<>>
          /\ received[t][1].data = sent[t][1])
         => /\ pc[t] = "idle"
            /\ result[t] = Ok([ping_ms |-> "elapsed"])

C25_Witness ==
  \E t \in Tasks :
    /\ Ended(t) /\ query[t].kind = "Ping"
    /\ timeouts[t] = 1 /\ sends[t] = 2 /\ Len(sent[t]) = 2
    /\ sent[t][2] = sent[t][1]
    /\ received[t] # <<>> /\ received[t][1].data = sent[t][1]
    /\ result[t] = Ok([ping_ms |-> "elapsed"])

====
